---- MODULE Spec2Model ----
(***************************************************************************)
(* Model of the local persistence and data-export layer of the novel       *)
(* companion (src/src/lib/database.ts) and of the import dialog handler    *)
(* (src/src/components/ExportImportDialog.tsx).                            *)
(*                                                                         *)
(* The IndexedDB database is the variable db, a record of five object      *)
(* stores, each a function from primary key (id) to record.  Every         *)
(* exported async function is a task: a Start action is the call (it runs  *)
(* synchronously up to the first await, which is getDB()), and every       *)
(* further action is the code between two awaits together with the one     *)
(* IndexedDB transaction it issues.  A transaction is atomic; whatever     *)
(* lies between two transactions of one task can be interleaved with the   *)
(* steps of another task.                                                  *)
(*                                                                         *)
(* Entity records carry the fields the operations look at (id, novelId,    *)
(* images, linkedCharacterIds, coverImage, createdAt, updatedAt) and one   *)
(* representative opaque field (title / name); the remaining fields of     *)
(* src/src/types/novel.ts are copied by the same object spreads as that    *)
(* representative field and are never inspected.  Two records of the      *)
(* stored library carry linkedPlaceIds, which no operation reads.          *)
(* The state controller (src/src/contexts/NovelContext.tsx) is modelled    *)
(* further down.                                                           *)
(***************************************************************************)
EXTENDS Integers, Sequences, FiniteSets, TLC

(* ------------------------------ bounds --------------------------------- *)
MaxClock == 4        \* Date.now() ranges up to MaxClock
MaxRand == 2         \* Math.random() suffixes range over 1..MaxRand
MaxCalls == 2        \* calls made in one session of the process
MaxProcs == 2        \* tasks that can be in flight together

Procs == 1..MaxProcs
Rand == 1..MaxRand
Stores == {"novels", "characters", "places", "notes", "images"}

VARIABLES
  db,         \* the five object stores: db[store][id] = record
  now,        \* the value Date.now() returns
  dbPromise,  \* the module-level dbPromise: "null", "pending" or "resolved"
  opens,      \* number of openDB calls made by this process
  tasks,      \* tasks[p]: the async call in flight in slot p, or Idle
  calls,      \* number of calls made so far in this session
  last,       \* the call that returned in the last step, or NoLast
  currentNovel, \* NovelProvider state: the selected novel, or Absent (null)
  characters,   \* NovelProvider state: the cached characters
  places,       \* NovelProvider state: the cached places
  notes,        \* NovelProvider state: the cached notes
  selects,      \* the selectNovel calls in flight, in the order of their
                \* pending storage requests
  issued,       \* the arguments of the selectNovel calls made so far
  snaps         \* snaps.at[p]: the contents the store has had since the
                \* exportAll in slot p was called, kept when snaps.on

vars == <<db, now, dbPromise, opens, tasks, calls, last,
          currentNovel, characters, places, notes, selects, issued, snaps>>
\* the state of the NovelProvider
cache == <<currentNovel, characters, places, notes, selects, issued>>

(* ------------------------------ values --------------------------------- *)
Absent == <<>>                  \* undefined, for an optional id
Idle == [op |-> "idle"]
NoLast == [op |-> "none"]
EmptyDB == [s \in Stores |-> <<>>]

IdLess(a, b) == a[1] < b[1] \/ (a[1] = b[1] /\ a[2] < b[2])

RECURSIVE SortById(_)
\* the records of a set in primary-key order, as getAll returns them
SortById(S) ==
  IF S = {} THEN <<>>
  ELSE LET m == CHOOSE x \in S : \A y \in S : y = x \/ IdLess(x.id, y.id)
       IN <<m>> \o SortById(S \ {m})


\* the order of the by-updated index: key updatedAt, then primary key
UpdatedLess(a, b) ==
  a.updatedAt < b.updatedAt \/ (a.updatedAt = b.updatedAt /\ IdLess(a.id, b.id))

RECURSIVE SortByUpdated(_)
SortByUpdated(S) ==
  IF S = {} THEN <<>>
  ELSE LET m == CHOOSE x \in S : \A y \in S : y = x \/ UpdatedLess(x, y)
       IN <<m>> \o SortByUpdated(S \ {m})

Range(f) == {f[k] : k \in DOMAIN f}
Includes(seq, x) == \E i \in 1..Len(seq) : seq[i] = x
Filter(seq, x) == SelectSeq(seq, LAMBDA e : e # x)

\* {...e, ...d}: the fields of d laid over those of e
Overlay(e, d) ==
  [f \in DOMAIN e \cup DOMAIN d |-> IF f \in DOMAIN d THEN d[f] ELSE e[f]]

(* ------------------------- storage engine ------------------------------ *)
Get(d, store, id) == IF id \in DOMAIN d[store] THEN d[store][id] ELSE Absent
Has(d, store, id) == id \in DOMAIN d[store]
Put(d, store, rec) ==
  [d EXCEPT ![store] =
     [k \in DOMAIN @ \cup {rec.id} |-> IF k = rec.id THEN rec ELSE @[k]]]
Delete(d, store, id) ==
  [d EXCEPT ![store] = [k \in DOMAIN @ \ {id} |-> @[k]]]
Clear(d, store) == [d EXCEPT ![store] = <<>>]
GetAll(d, store) == SortById(Range(d[store]))
GetAllByNovel(d, store, novelId) ==
  SortById({r \in Range(d[store]) : r.novelId = novelId})
GetAllByUpdated(d, store) == SortByUpdated(Range(d[store]))

RECURSIVE DeleteAll(_, _, _)
\* delete the ids of a list one after the other inside one transaction
DeleteAll(d, store, ids) ==
  IF ids = <<>> THEN d
  ELSE DeleteAll(Delete(d, store, Head(ids)), store, Tail(ids))

(* --------------------- the store during exportAll ---------------------- *)
\* every step adds the contents it leaves to the history of each exportAll
\* that is in flight after it
Recorded ==
  snaps' = IF snaps.on
           THEN [snaps EXCEPT !.at =
                   [p \in Procs |->
                      IF tasks'[p].op = "exportAll"
                      THEN (IF tasks[p].op = "exportAll" THEN @[p] ELSE {})
                             \cup {db'}
                      ELSE {}]]
           ELSE snaps

(* ------------------------------ getDB ---------------------------------- *)
\* a getDB that caches the connection instead of the promise: a call made
\* while the open is pending opens again
GetDB_cachedConnection ==
  IF dbPromise # "resolved"
  THEN dbPromise' = "pending" /\ opens' = opens + 1
  ELSE UNCHANGED <<dbPromise, opens>>

\* the synchronous part of getDB(): the first call issues openDB
GetDB ==
  IF dbPromise = "null"
  THEN dbPromise' = "pending" /\ opens' = opens + 1
  ELSE UNCHANGED <<dbPromise, opens>>

\* openDB resolves (the upgrade callback has created the five stores)
OpenResolved ==
  /\ dbPromise = "pending"
  /\ dbPromise' = "resolved"
  /\ last' = NoLast
  /\ UNCHANGED <<db, now, opens, tasks, calls>>
  /\ UNCHANGED cache
  /\ Recorded

generateId(t, r) == <<t, r>>

(* ------------------------------ clock ---------------------------------- *)
Tick ==
  /\ now < MaxClock
  /\ now' = now + 1
  /\ last' = NoLast
  /\ UNCHANGED <<db, dbPromise, opens, tasks, calls>>
  /\ UNCHANGED cache
  /\ Recorded

(* ------------------------------ tasks ---------------------------------- *)
\* a call: the task is entered in slot p, the first free one, and runs up to
\* `await getDB()`
FreeSlot(p) == tasks[p] = Idle /\ \A q \in Procs : q < p => tasks[q] # Idle

Enter(p, t, cost) ==
  /\ FreeSlot(p)
  /\ calls + cost <= MaxCalls
  /\ calls' = calls + cost
  /\ tasks' = [tasks EXCEPT ![p] = t @@ [pre |-> db, solo |-> TRUE]]
  /\ GetDB
  /\ last' = NoLast
  /\ UNCHANGED <<db, now>>
  /\ UNCHANGED cache
  /\ Recorded

Call(p, t) == Enter(p, t, 1)

At(p, op, pc) ==
  /\ dbPromise = "resolved"
  /\ tasks[p].op = op
  /\ tasks[p].pc = pc

\* a step of p is a step between the start and the end of every other task
Disturbed(p, q) ==
  IF tasks[q] = Idle \/ q = p THEN tasks[q]
  ELSE [tasks[q] EXCEPT !.solo = FALSE, !.pre = EmptyDB]

\* p goes on with task record t
Goto(p, t) ==
  /\ tasks' = [q \in Procs |-> IF q = p THEN t ELSE Disturbed(p, q)]
  /\ last' = NoLast
  /\ UNCHANGED <<now, dbPromise, opens, calls>>
  /\ UNCHANGED cache
  /\ Recorded

\* p's call settles: outcome "ok" (resolved with result) or "error" (rejected)
Return(p, outcome, result) ==
  /\ tasks' = [q \in Procs |-> IF q = p THEN Idle ELSE Disturbed(p, q)]
  /\ last' = [op |-> tasks[p].op, call |-> tasks[p], outcome |-> outcome,
              result |-> result]
  /\ UNCHANGED <<now, dbPromise, opens, calls>>
  /\ UNCHANGED cache
  /\ Recorded

(* ------------------------ record builders ------------------------------ *)
\* a create that stamps updatedAt after createdAt
newRecord_twoStamps(input, t, r) ==
  Overlay(input, [id |-> generateId(t, r), createdAt |-> t, updatedAt |-> t + 1])

\* {...input, id: generateId(), createdAt: now, updatedAt: now}
newRecord(input, t, r) ==
  Overlay(input, [id |-> generateId(t, r), createdAt |-> t, updatedAt |-> t])

\* the spread without the id after it: {...existing, ...data, updatedAt}
updatedRecord_payloadId(existing, data, id, t) ==
  Overlay(Overlay(existing, data), [updatedAt |-> t])

\* {...existing, ...data, id, updatedAt: Date.now()}
updatedRecord(existing, data, id, t) ==
  Overlay(Overlay(existing, data), [id |-> id, updatedAt |-> t])

\* { id, data } of imageDB.save
imageRecord(data, t, r) == [id |-> generateId(t, r), data |-> data]

(* ---------------------------- inputs ----------------------------------- *)
ImageData == {"", "d1"}
DanglingId == <<0, 0>>          \* the id of a record that is no longer stored

ImageIds == DOMAIN db.images
NovelIds == DOMAIN db.novels
CharacterIds == DOMAIN db.characters
PlaceIds == DOMAIN db.places
NoteIds == DOMAIN db.notes

\* the smallest id of a set, as a set (empty when there is none)
First(S) == {x \in S : \A y \in S : y = x \/ IdLess(x, y)}
\* the lists an input offers over a set of ids: none, or its first id
Lists(S) == {<<>>} \cup {<<a>> : a \in First(S)}

NovelInputs ==
  [title : {"t1"}, coverImage : {Absent} \cup First(ImageIds)]
CharacterInputs ==
  [novelId : First(NovelIds) \cup {DanglingId}, name : {"t1"},
   images : Lists(ImageIds), linkedCharacterIds : Lists(CharacterIds)]
PlaceInputs ==
  [novelId : First(NovelIds) \cup {DanglingId}, name : {"t1"},
   images : Lists(ImageIds)]
NoteInputs ==
  [novelId : First(NovelIds) \cup {DanglingId}, title : {"t1"}]

(* ------------------------- the stored library --------------------------- *)
\* IndexedDB outlives the page: a session starts on the database earlier
\* sessions left behind, either none (first visit) or the library below,
\* written at times 1 and 2 by imageDB.save, create and update; the session
\* itself starts at time 3.
I1 == imageRecord("d1", 1, 1)
I2 == imageRecord("d1", 1, 2)
I3 == imageRecord("", 2, 1)
N1 == updatedRecord(newRecord([title |-> "t1", coverImage |-> Absent], 1, 1),
                    [coverImage |-> I3.id], generateId(1, 1), 2)
N2 == newRecord([title |-> "t1", coverImage |-> Absent], 1, 2)
Pl1 == newRecord([novelId |-> N1.id, name |-> "t1", images |-> <<I2.id>>], 1, 1)
ChB == newRecord([novelId |-> N1.id, name |-> "t1", images |-> <<I1.id>>,
                  linkedCharacterIds |-> <<>>], 1, 1)
ChC == newRecord([novelId |-> N2.id, name |-> "t1", images |-> <<I1.id>>,
                  linkedCharacterIds |-> <<ChB.id>>], 1, 2)
ChA == newRecord([novelId |-> N1.id, name |-> "t1", images |-> <<I2.id>>,
                  linkedCharacterIds |-> <<ChC.id, ChB.id, DanglingId>>,
                  linkedPlaceIds |-> <<Pl1.id>>], 2, 1)
ChD == newRecord([novelId |-> N1.id, name |-> "t1", images |-> <<>>,
                  linkedCharacterIds |-> <<ChB.id>>], 2, 2)
Nt1 == newRecord([novelId |-> N1.id, title |-> "t1",
                  linkedPlaceIds |-> <<Pl1.id>>], 1, 1)
Nt2 == newRecord([novelId |-> N2.id, title |-> "t1"], 1, 2)

RECURSIVE PutAll(_, _, _)
PutAll(d, store, recs) ==
  IF recs = <<>> THEN d
  ELSE PutAll(Put(d, store, Head(recs)), store, Tail(recs))

Library ==
  PutAll(PutAll(PutAll(PutAll(PutAll(EmptyDB,
    "images", <<I1, I2, I3>>),
    "novels", <<N1, N2>>),
    "characters", <<ChB, ChC, ChA, ChD>>),
    "places", <<Pl1>>),
    "notes", <<Nt1, Nt2>>)

(* ------------------------ create (four stores) ------------------------- *)
\* create, from the resolution of getDB() on: Date.now(), generateId(),
\* db.put of {...input, id, createdAt, updatedAt} and the return of the record
create(p, op, store) ==
  /\ At(p, op, "put")
  /\ \E r \in Rand :
       LET rec == newRecord(tasks[p].data, now, r)
       IN /\ db' = Put(db, store, rec)
          /\ Return(p, "ok", rec)

createCall(p, op, store, data) ==
  /\ store \in Stores
  /\ Call(p, [op |-> op, pc |-> "put", arg |-> Absent, data |-> data])

novelDB_create_call(p) == \E d \in NovelInputs : createCall(p, "novelDB.create", "novels", d)
novelDB_create(p) == create(p, "novelDB.create", "novels")
characterDB_create_call(p) ==
  \E d \in CharacterInputs : createCall(p, "characterDB.create", "characters", d)
characterDB_create(p) == create(p, "characterDB.create", "characters")
placeDB_create_call(p) == \E d \in PlaceInputs : createCall(p, "placeDB.create", "places", d)
placeDB_create(p) == create(p, "placeDB.create", "places")
noteDB_create_call(p) == \E d \in NoteInputs : createCall(p, "noteDB.create", "notes", d)
noteDB_create(p) == create(p, "noteDB.create", "notes")

(* ------------------------ update (four stores) ------------------------- *)
\* Partial<T> payloads: a changed field, and payloads that carry the id or
\* the createdAt of a record (a different id; a time the clock has not reached)
ForeignId == <<9, 9>>
FutureTime == MaxClock + 1
KeyPatches == {[id |-> ForeignId], [createdAt |-> FutureTime]}

NovelPatches ==
  {[title |-> "t2"]} \cup {[coverImage |-> i] : i \in First(ImageIds)}
    \cup KeyPatches
CharacterPatches ==
  {[name |-> "t2"]} \cup {[images |-> <<i>>] : i \in First(ImageIds)}
    \cup {[linkedCharacterIds |-> <<c>>] : c \in First(CharacterIds)}
    \cup KeyPatches
PlacePatches ==
  {[name |-> "t2"]} \cup {[images |-> <<i>>] : i \in First(ImageIds)}
    \cup KeyPatches
NotePatches == {[title |-> "t2"]} \cup KeyPatches

updateCall(p, op, id, data) ==
  Call(p, [op |-> op, pc |-> "get", arg |-> id, data |-> data, existing |-> Absent])

\* the update without `if (!existing) return undefined`
update_get_unchecked(p, op, store) ==
  /\ At(p, op, "get")
  /\ UNCHANGED db
  /\ Goto(p, [tasks[p] EXCEPT !.pc = "put",
                              !.existing = Get(db, store, tasks[p].arg)])

\* const existing = await db.get(store, id); if (!existing) return undefined
update_get(p, op, store) ==
  /\ At(p, op, "get")
  /\ UNCHANGED db
  /\ IF Has(db, store, tasks[p].arg)
     THEN Goto(p, [tasks[p] EXCEPT !.pc = "put",
                                   !.existing = Get(db, store, tasks[p].arg)])
     ELSE Return(p, "ok", Absent)

\* {...existing, ...data, id, updatedAt: Date.now()}; db.put; return updated
update_put(p, op, store) ==
  /\ At(p, op, "put")
  /\ LET updated == updatedRecord(tasks[p].existing, tasks[p].data,
                                  tasks[p].arg, now)
     IN /\ db' = Put(db, store, updated)
        /\ Return(p, "ok", updated)

novelDB_update_call(p) ==
  \E id \in NovelIds \cup {DanglingId}, d \in NovelPatches :
    updateCall(p, "novelDB.update", id, d)
novelDB_update(p) ==
  update_get(p, "novelDB.update", "novels") \/ update_put(p, "novelDB.update", "novels")
characterDB_update_call(p) ==
  \E id \in CharacterIds \cup {DanglingId}, d \in CharacterPatches :
    updateCall(p, "characterDB.update", id, d)
characterDB_update(p) ==
  \/ update_get(p, "characterDB.update", "characters")
  \/ update_put(p, "characterDB.update", "characters")
placeDB_update_call(p) ==
  \E id \in PlaceIds \cup {DanglingId}, d \in PlacePatches :
    updateCall(p, "placeDB.update", id, d)
placeDB_update(p) ==
  update_get(p, "placeDB.update", "places") \/ update_put(p, "placeDB.update", "places")
noteDB_update_call(p) ==
  \E id \in NoteIds \cup {DanglingId}, d \in NotePatches :
    updateCall(p, "noteDB.update", id, d)
noteDB_update(p) ==
  update_get(p, "noteDB.update", "notes") \/ update_put(p, "noteDB.update", "notes")

(* ------------------------------- lists --------------------------------- *)
novelDB_getAll_call(p) ==
  Call(p, [op |-> "novelDB.getAll", pc |-> "read", arg |-> Absent])

\* return db.getAllFromIndex('novels', 'by-updated')
novelDB_getAll(p) ==
  /\ At(p, "novelDB.getAll", "read")
  /\ UNCHANGED db
  /\ Return(p, "ok", GetAllByUpdated(db, "novels"))

getByNovelCall(p, op) ==
  \E novelId \in First(NovelIds) :
    Call(p, [op |-> op, pc |-> "read", arg |-> novelId])

\* return db.getAllFromIndex(store, 'by-novel', novelId)
getByNovel(p, op, store) ==
  /\ At(p, op, "read")
  /\ UNCHANGED db
  /\ Return(p, "ok", GetAllByNovel(db, store, tasks[p].arg))

characterDB_getByNovel_call(p) == getByNovelCall(p, "characterDB.getByNovel")
characterDB_getByNovel(p) == getByNovel(p, "characterDB.getByNovel", "characters")
placeDB_getByNovel_call(p) == getByNovelCall(p, "placeDB.getByNovel")
placeDB_getByNovel(p) == getByNovel(p, "placeDB.getByNovel", "places")
noteDB_getByNovel_call(p) == getByNovelCall(p, "noteDB.getByNovel")
noteDB_getByNovel(p) == getByNovel(p, "noteDB.getByNovel", "notes")

(* ------------------------------ delete --------------------------------- *)
Ids(recs) == [i \in 1..Len(recs) |-> recs[i].id]

\* the cascade without the inner loop over rec.images
DeleteWithImages_keepImages(d, store, recs) == DeleteAll(d, store, Ids(recs))

RECURSIVE DeleteWithImages(_, _, _)
\* for (const rec of recs) { delete rec.id; for (imgId of rec.images) delete imgId }
DeleteWithImages(d, store, recs) ==
  IF recs = <<>> THEN d
  ELSE DeleteWithImages(
         DeleteAll(Delete(d, store, Head(recs).id), "images", Head(recs).images),
         store, Tail(recs))

novelDB_delete_call(p) ==
  \E id \in NovelIds \cup {DanglingId} :
    Call(p, [op |-> "novelDB.delete", pc |-> "characters", arg |-> id,
             characters |-> <<>>, places |-> <<>>, notes |-> <<>>])

\* the three getAllFromIndex(..., 'by-novel', id) reads, one transaction each
novelDB_delete_read(p) ==
  /\ UNCHANGED db
  /\ \/ /\ At(p, "novelDB.delete", "characters")
        /\ Goto(p, [tasks[p] EXCEPT !.pc = "places",
               !.characters = GetAllByNovel(db, "characters", tasks[p].arg)])
     \/ /\ At(p, "novelDB.delete", "places")
        /\ Goto(p, [tasks[p] EXCEPT !.pc = "notes",
               !.places = GetAllByNovel(db, "places", tasks[p].arg)])
     \/ /\ At(p, "novelDB.delete", "notes")
        /\ Goto(p, [tasks[p] EXCEPT !.pc = "tx",
               !.notes = GetAllByNovel(db, "notes", tasks[p].arg)])

\* the transaction deleting the novel's cover image as well
novelDB_delete_withCover(p) ==
  /\ At(p, "novelDB.delete", "tx")
  /\ LET d1 == DeleteWithImages(db, "characters", tasks[p].characters)
         d2 == DeleteWithImages(d1, "places", tasks[p].places)
         d3 == DeleteAll(d2, "notes", Ids(tasks[p].notes))
         novel == Get(db, "novels", tasks[p].arg)
         d4 == IF novel # Absent /\ novel.coverImage # Absent
               THEN Delete(d3, "images", novel.coverImage) ELSE d3
     IN db' = Delete(d4, "novels", tasks[p].arg)
  /\ Return(p, "ok", Absent)

\* the readwrite transaction over the five stores, up to tx.done
novelDB_delete(p) ==
  /\ At(p, "novelDB.delete", "tx")
  /\ LET d1 == DeleteWithImages(db, "characters", tasks[p].characters)
         d2 == DeleteWithImages(d1, "places", tasks[p].places)
         d3 == DeleteAll(d2, "notes", Ids(tasks[p].notes))
     IN db' = Delete(d3, "novels", tasks[p].arg)
  /\ Return(p, "ok", Absent)

\* the novel of character id when the call repeats a characterDB.delete(id)
\* that the end of the process cut short after its transaction, else Absent
Interrupted(id) ==
  IF /\ last.op = "terminate"
     /\ \E q \in Procs : /\ last.killed[q].op = "characterDB.delete"
                         /\ last.killed[q].arg = id
                         /\ last.killed[q].pc \in {"scan", "cleanup"}
  THEN LET q == CHOOSE q \in Procs : /\ last.killed[q].op = "characterDB.delete"
                                     /\ last.killed[q].arg = id
       IN last.killed[q].character.novelId
  ELSE Absent

\* the ids of the characterDB.delete calls the end of the process cut short
InterruptedIds ==
  IF last.op = "terminate"
  THEN {last.killed[q].arg :
          q \in {q \in Procs : last.killed[q].op = "characterDB.delete"}}
  ELSE {}

characterDB_delete_call(p) ==
  \E id \in CharacterIds \cup {DanglingId} \cup InterruptedIds :
    Call(p, [op |-> "characterDB.delete", pc |-> "get", arg |-> id,
             character |-> Absent, rest |-> <<>>, retry |-> Interrupted(id)])

\* const character = await db.get('characters', id); if (!character) return
characterDB_delete_get(p) ==
  /\ At(p, "characterDB.delete", "get")
  /\ UNCHANGED db
  /\ IF Has(db, "characters", tasks[p].arg)
     THEN Goto(p, [tasks[p] EXCEPT !.pc = "tx",
                     !.character = Get(db, "characters", tasks[p].arg)])
     ELSE Return(p, "ok", Absent)

\* the transaction without the loop over character.images
characterDB_delete_keepImages(p) ==
  /\ At(p, "characterDB.delete", "tx")
  /\ db' = Delete(db, "characters", tasks[p].arg)
  /\ Goto(p, [tasks[p] EXCEPT !.pc = "scan"])

\* the transaction over characters and images
characterDB_delete(p) ==
  /\ At(p, "characterDB.delete", "tx")
  /\ db' = Delete(DeleteAll(db, "images", tasks[p].character.images),
                  "characters", tasks[p].arg)
  /\ Goto(p, [tasks[p] EXCEPT !.pc = "scan"])

\* allChars = getAllFromIndex('characters', 'by-novel', character.novelId);
\* rest is the part of allChars the loop will write
characterDB_delete_scan(p) ==
  /\ At(p, "characterDB.delete", "scan")
  /\ UNCHANGED db
  /\ LET allChars == GetAllByNovel(db, "characters", tasks[p].character.novelId)
         rest == SelectSeq(allChars,
                   LAMBDA c : Includes(c.linkedCharacterIds, tasks[p].arg))
     IN IF rest = <<>> THEN Return(p, "ok", Absent)
        ELSE Goto(p, [tasks[p] EXCEPT !.pc = "cleanup", !.rest = rest])

\* the cleanup writing back the links unfiltered
characterDB_delete_cleanup_unfiltered(p) ==
  /\ At(p, "characterDB.delete", "cleanup")
  /\ db' = Put(db, "characters",
               Overlay(Head(tasks[p].rest), [updatedAt |-> now]))
  /\ IF Tail(tasks[p].rest) = <<>> THEN Return(p, "ok", Absent)
     ELSE Goto(p, [tasks[p] EXCEPT !.rest = Tail(@)])

\* one db.put of the loop, with the record as the scan read it
characterDB_delete_cleanup(p) ==
  /\ At(p, "characterDB.delete", "cleanup")
  /\ LET char == Head(tasks[p].rest)
     IN db' = Put(db, "characters",
                  Overlay(char, [linkedCharacterIds |->
                                   Filter(char.linkedCharacterIds, tasks[p].arg),
                                 updatedAt |-> now]))
  /\ IF Tail(tasks[p].rest) = <<>> THEN Return(p, "ok", Absent)
     ELSE Goto(p, [tasks[p] EXCEPT !.rest = Tail(@)])

placeDB_delete_call(p) ==
  \E id \in PlaceIds \cup {DanglingId} :
    Call(p, [op |-> "placeDB.delete", pc |-> "get", arg |-> id, place |-> Absent])

placeDB_delete_get(p) ==
  /\ At(p, "placeDB.delete", "get")
  /\ UNCHANGED db
  /\ IF Has(db, "places", tasks[p].arg)
     THEN Goto(p, [tasks[p] EXCEPT !.pc = "tx",
                     !.place = Get(db, "places", tasks[p].arg)])
     ELSE Return(p, "ok", Absent)

\* a delete that also takes the place's id out of the linkedPlaceIds lists
placeDB_delete_unlink(p) ==
  /\ At(p, "placeDB.delete", "tx")
  /\ LET d1 == Delete(DeleteAll(db, "images", tasks[p].place.images),
                      "places", tasks[p].arg)
         unlink(r) == IF "linkedPlaceIds" \in DOMAIN r
                      THEN [r EXCEPT !.linkedPlaceIds = Filter(@, tasks[p].arg)]
                      ELSE r
     IN db' = [d1 EXCEPT !.characters = [k \in DOMAIN @ |-> unlink(@[k])],
                         !.notes = [k \in DOMAIN @ |-> unlink(@[k])]]
  /\ Return(p, "ok", Absent)

\* the transaction over places and images
placeDB_delete(p) ==
  /\ At(p, "placeDB.delete", "tx")
  /\ db' = Delete(DeleteAll(db, "images", tasks[p].place.images),
                  "places", tasks[p].arg)
  /\ Return(p, "ok", Absent)

noteDB_delete_call(p) ==
  \E id \in NoteIds \cup {DanglingId} :
    Call(p, [op |-> "noteDB.delete", pc |-> "delete", arg |-> id])

noteDB_delete(p) ==
  /\ At(p, "noteDB.delete", "delete")
  /\ db' = Delete(db, "notes", tasks[p].arg)
  /\ Return(p, "ok", Absent)

(* ----------------------------- imageDB ---------------------------------- *)
imageDB_save_call(p) ==
  \E data \in ImageData :
    Call(p, [op |-> "imageDB.save", pc |-> "put", arg |-> Absent, data |-> data])

imageDB_save(p) ==
  /\ At(p, "imageDB.save", "put")
  /\ \E r \in Rand :
       LET rec == imageRecord(tasks[p].data, now, r)
       IN /\ db' = Put(db, "images", rec)
          /\ Return(p, "ok", rec.id)

imageDB_delete_call(p) ==
  \E id \in ImageIds \cup {DanglingId} :
    Call(p, [op |-> "imageDB.delete", pc |-> "delete", arg |-> id])

imageDB_delete(p) ==
  /\ At(p, "imageDB.delete", "delete")
  /\ db' = Delete(db, "images", tasks[p].arg)
  /\ Return(p, "ok", Absent)

(* ---------------------------- exportAll --------------------------------- *)
RECURSIVE AddAll(_, _)
\* ids.forEach(id => imageIds.add(id)): a Set keeps first insertions, in order
AddAll(set, ids) ==
  IF ids = <<>> THEN set
  ELSE AddAll(IF Includes(set, Head(ids)) THEN set ELSE Append(set, Head(ids)),
              Tail(ids))

RECURSIVE AddImages(_, _)
\* recs.forEach(r => r.images.forEach(id => imageIds.add(id)))
AddImages(set, recs) ==
  IF recs = <<>> THEN set
  ELSE AddImages(AddAll(set, Head(recs).images), Tail(recs))

RECURSIVE AddCovers(_, _)
\* novels.forEach(n => n.coverImage && imageIds.add(n.coverImage))
AddCovers(set, novels) ==
  IF novels = <<>> THEN set
  ELSE AddCovers(IF Head(novels).coverImage # Absent
                 THEN AddAll(set, <<Head(novels).coverImage>>) ELSE set,
                 Tail(novels))

\* the collection without the pass over the characters
collectImageIds_noCharacters(novels, chars, pls) ==
  AddCovers(AddImages(<<>>, pls), novels)

collectImageIds(novels, chars, pls) ==
  AddCovers(AddImages(AddImages(<<>>, chars), pls), novels)

\* the returned ExportData; has = the top-level fields that are present
exportData(t, images) ==
  [has |-> {"version", "novels"}, version |-> "1.0", exportedAt |-> now,
   novels |-> t.novels, characters |-> t.characters, places |-> t.places,
   notes |-> t.notes, images |-> images]

dataExport_exportAll_call(p) ==
  Call(p, [op |-> "exportAll", pc |-> "novels", arg |-> Absent,
           novels |-> <<>>, characters |-> <<>>, places |-> <<>>,
           notes |-> <<>>, ids |-> <<>>, images |-> <<>>])

\* the four db.getAll reads, one transaction each; the last one goes on to
\* collect the image ids
dataExport_exportAll_read(p) ==
  /\ UNCHANGED db
  /\ \/ /\ At(p, "exportAll", "novels")
        /\ Goto(p, [tasks[p] EXCEPT !.pc = "characters",
                                  !.novels = GetAll(db, "novels")])
     \/ /\ At(p, "exportAll", "characters")
        /\ Goto(p, [tasks[p] EXCEPT !.pc = "places",
                                  !.characters = GetAll(db, "characters")])
     \/ /\ At(p, "exportAll", "places")
        /\ Goto(p, [tasks[p] EXCEPT !.pc = "notes",
                                  !.places = GetAll(db, "places")])
     \/ /\ At(p, "exportAll", "notes")
        /\ LET t == [tasks[p] EXCEPT !.notes = GetAll(db, "notes")]
               ids == collectImageIds(t.novels, t.characters, t.places)
           IN IF ids = <<>> THEN Return(p, "ok", exportData(t, <<>>))
              ELSE Goto(p, [t EXCEPT !.pc = "images", !.ids = ids])

\* the loop rejecting when a referenced image has no record
dataExport_exportAll_strict(p) ==
  /\ At(p, "exportAll", "images")
  /\ UNCHANGED db
  /\ LET id == Head(tasks[p].ids)
         images == IF Has(db, "images", id) /\ db.images[id].data # ""
                   THEN Append(tasks[p].images, db.images[id])
                   ELSE tasks[p].images
     IN IF ~Has(db, "images", id) THEN Return(p, "error", Absent)
        ELSE IF Tail(tasks[p].ids) = <<>>
        THEN Return(p, "ok", exportData(tasks[p], images))
        ELSE Goto(p, [tasks[p] EXCEPT !.ids = Tail(@), !.images = images])

\* the loop without `if (data)`: every stored image that is referred to
dataExport_exportAll_unchecked(p) ==
  /\ At(p, "exportAll", "images")
  /\ UNCHANGED db
  /\ LET id == Head(tasks[p].ids)
         images == IF Has(db, "images", id)
                   THEN Append(tasks[p].images, db.images[id])
                   ELSE tasks[p].images
     IN IF Tail(tasks[p].ids) = <<>>
        THEN Return(p, "ok", exportData(tasks[p], images))
        ELSE Goto(p, [tasks[p] EXCEPT !.ids = Tail(@), !.images = images])

\* const data = await imageDB.get(id); if (data) images[id] = data
dataExport_exportAll(p) ==
  /\ At(p, "exportAll", "images")
  /\ UNCHANGED db
  /\ LET id == Head(tasks[p].ids)
         images == IF Has(db, "images", id) /\ db.images[id].data # ""
                   THEN Append(tasks[p].images, db.images[id])
                   ELSE tasks[p].images
     IN IF Tail(tasks[p].ids) = <<>>
        THEN Return(p, "ok", exportData(tasks[p], images))
        ELSE Goto(p, [tasks[p] EXCEPT !.ids = Tail(@), !.images = images])

(* ---------------------------- importAll --------------------------------- *)
Puts(store, recs) ==
  [i \in 1..Len(recs) |-> [kind |-> "put", store |-> store, rec |-> recs[i]]]
Clears(stores) ==
  [i \in 1..Len(stores) |-> [kind |-> "clear", store |-> stores[i]]]

\* importAll writing the images after the notes
Writes_imagesLast(data, mode) ==
  (IF mode = "overwrite"
   THEN Clears(<<"novels", "characters", "places", "notes", "images">>)
   ELSE <<>>)
  \o (IF "novels" \in data.has
      THEN Puts("novels", data.novels) \o Puts("characters", data.characters)
           \o Puts("places", data.places) \o Puts("notes", data.notes)
      ELSE <<>>)
  \o Puts("images", data.images)

\* importAll clearing the stores whatever the mode
Writes_alwaysClear(data, mode) ==
  Clears(<<"novels", "characters", "places", "notes", "images">>)
  \o Puts("images", data.images)
  \o (IF "novels" \in data.has
      THEN Puts("novels", data.novels) \o Puts("characters", data.characters)
           \o Puts("places", data.places) \o Puts("notes", data.notes)
      ELSE <<>>)

\* importAll that leaves the images store out of the clearing
Writes_keepImages(data, mode) ==
  (IF mode = "overwrite"
   THEN Clears(<<"novels", "characters", "places", "notes">>)
   ELSE <<>>)
  \o Puts("images", data.images)
  \o (IF "novels" \in data.has
      THEN Puts("novels", data.novels) \o Puts("characters", data.characters)
           \o Puts("places", data.places) \o Puts("notes", data.notes)
      ELSE <<>>)

\* the storage requests importAll issues, in order, each in its own
\* transaction; without data.novels the loop over it throws after the images
Writes(data, mode) ==
  (IF mode = "overwrite"
   THEN Clears(<<"novels", "characters", "places", "notes", "images">>)
   ELSE <<>>)
  \o Puts("images", data.images)
  \o (IF "novels" \in data.has
      THEN Puts("novels", data.novels) \o Puts("characters", data.characters)
           \o Puts("places", data.places) \o Puts("notes", data.notes)
      ELSE <<>>)
Throws(data) == "novels" \notin data.has

Apply(d, w) == IF w.kind = "clear" THEN Clear(d, w.store) ELSE Put(d, w.store, w.rec)

\* backup documents that come from a file
DocNovelY == [id |-> generateId(1, 1), title |-> "t3", coverImage |-> Absent,
              createdAt |-> 1, updatedAt |-> 1]
DocNovelZ == [id |-> <<9, 1>>, title |-> "t3", coverImage |-> generateId(1, 1),
              createdAt |-> 1, updatedAt |-> 1]
DocCharacter == [id |-> generateId(1, 1), novelId |-> <<9, 1>>, name |-> "t3",
                 images |-> <<generateId(1, 1)>>, linkedCharacterIds |-> <<>>,
                 createdAt |-> 1, updatedAt |-> 1]
DocPlace == [id |-> <<9, 1>>, novelId |-> <<9, 1>>, name |-> "t3",
             images |-> <<>>, createdAt |-> 1, updatedAt |-> 1]
DocNote == [id |-> <<9, 1>>, novelId |-> <<9, 1>>, title |-> "t3",
            createdAt |-> 1, updatedAt |-> 1]
FileDoc ==
  [has |-> {"version", "novels"}, version |-> "1.0", exportedAt |-> 1,
   novels |-> <<DocNovelY, DocNovelZ>>, characters |-> <<DocCharacter>>,
   places |-> <<DocPlace>>, notes |-> <<DocNote>>,
   images |-> <<[id |-> generateId(1, 1), data |-> "d2"]>>]
Docs ==
  {FileDoc, [FileDoc EXCEPT !.has = {"novels"}], [FileDoc EXCEPT !.has = {"version"}]}
    \cup (IF last.op = "exportAll" THEN {last.result} ELSE {})

\* via: the caller; exported: data is the document exportAll has just
\* returned, read with no other task stepping in between
importTask(data, mode, via) ==
  [op |-> "importAll", pc |-> "write", arg |-> data, mode |-> mode,
   writes |-> Writes(data, mode), via |-> via,
   exported |-> (last.op = "exportAll" /\ data = last.result /\ last.call.solo)]

\* restoring the backup just taken, with nothing else in flight, is not
\* counted in the budget of calls
dataExport_importAll_call(p) ==
  \E data \in Docs, mode \in {"overwrite", "merge"} :
    Enter(p, importTask(data, mode, "api"),
          IF last.op = "exportAll" /\ data = last.result
             /\ \A q \in Procs : tasks[q] = Idle
          THEN 0 ELSE 1)

\* the next request of importAll commits; the call settles after the last one
dataExport_importAll(p) ==
  /\ At(p, "importAll", "write")
  /\ LET ws == tasks[p].writes
         outcome == IF Throws(tasks[p].arg) THEN "error" ELSE "ok"
     IN IF ws = <<>> THEN UNCHANGED db /\ Return(p, outcome, Absent)
        ELSE /\ db' = Apply(db, Head(ws))
             /\ IF Tail(ws) = <<>> THEN Return(p, outcome, Absent)
                ELSE Goto(p, [tasks[p] EXCEPT !.writes = Tail(ws)])

\* the next request of importAll fails (quota, corruption): its transaction
\* aborts and the rejection leaves importAll, which has no handler
dataExport_importAll_fail(p) ==
  /\ At(p, "importAll", "write")
  /\ tasks[p].writes # <<>>
  /\ UNCHANGED db
  /\ Return(p, "error", Absent)

\* !data.version || !data.novels
rejects(data) ==
  "version" \notin data.has \/ data.version = "" \/ "novels" \notin data.has

\* the dialog without its check of the parsed document
handleImport_unchecked(p) ==
  \E data \in Docs : Call(p, importTask(data, "overwrite", "handleImport"))

\* handleImport of the dialog, from JSON.parse on
handleImport(p) ==
  \E data \in Docs :
    IF rejects(data)
    THEN /\ FreeSlot(p)
         /\ calls < MaxCalls
         /\ calls' = calls + 1
         /\ last' = [op |-> "handleImport", outcome |-> "error", result |-> Absent,
                     call |-> [op |-> "handleImport", arg |-> data, pre |-> db,
                               solo |-> TRUE]]
         /\ UNCHANGED <<db, now, dbPromise, opens, tasks>>
         /\ UNCHANGED cache
         /\ Recorded
    ELSE Call(p, importTask(data, "overwrite", "handleImport"))

(* --------------------------- termination -------------------------------- *)
\* the page is closed or reloaded: every task in flight is gone, the module
\* state is that of a new process, the database stays as it is
Terminate ==
  /\ \E p \in Procs : tasks[p] # Idle
  /\ tasks' = [p \in Procs |-> Idle]
  /\ dbPromise' = "null"
  /\ opens' = 0
  /\ last' = [op |-> "terminate", killed |-> tasks]
  /\ currentNovel' = Absent /\ characters' = <<>> /\ places' = <<>>
  /\ notes' = <<>> /\ selects' = <<>>
  /\ UNCHANGED <<db, now, calls, issued>>
  /\ Recorded

(* ------------------------- NovelProvider -------------------------------- *)
\* The state controller (src/src/contexts/NovelContext.tsx).  A controller
\* function awaits one repository call and then sets the cached lists from
\* its result; the continuation runs in the microtasks of the event that
\* settles the repository call, before any other event is handled.  Calls of
\* create/update/delete are made one at a time here and not while a
\* selectNovel is in flight; selectNovel calls may overlap each other.  The
\* storage requests of overlapping selectNovel calls are read-only and are
\* served in the order they were issued.
CtlOps ==
  {"characterDB.create", "characterDB.update", "characterDB.delete",
   "placeDB.create", "placeDB.update", "placeDB.delete",
   "noteDB.create", "noteDB.update", "noteDB.delete"}

\* a repository call has settled and the controller function awaiting it
\* has not run on yet
Pending == last.op \in CtlOps
\* a controller function may be called
CtlIdle == ~Pending /\ selects = <<>> /\ \A p \in Procs : tasks[p] = Idle

\* prev.map(c => c.id === id ? updated : c)
MapReplace(prev, id, updated) ==
  [i \in 1..Len(prev) |-> IF prev[i].id = id THEN updated ELSE prev[i]]
\* prev.filter(c => c.id !== id)
FilterOut(prev, id) == SelectSeq(prev, LAMBDA c : c.id # id)

\* the controller function awaiting repository call op runs on to its end
Resume(op) ==
  /\ last.op = op
  /\ last' = [op |-> "settled", of |-> op, call |-> last.call,
              result |-> last.result]
  /\ UNCHANGED <<db, now, dbPromise, opens, tasks, calls, currentNovel,
                 selects, issued>>
  /\ Recorded

\* [...prev, record]
Created(list, op) == Resume(op) /\ list' = Append(list, last.result)
\* if (updated) set(prev => prev.map(...))
Updated(list, op) ==
  /\ Resume(op)
  /\ list' = IF DOMAIN last.result # {}
             THEN MapReplace(list, last.call.arg, last.result) ELSE list
Deleted(list, op) == Resume(op) /\ list' = FilterOut(list, last.call.arg)

createCharacter_call(p) == CtlIdle /\ characterDB_create_call(p)
createCharacter ==
  Created(characters, "characterDB.create") /\ UNCHANGED <<places, notes>>
updateCharacter_call(p) == CtlIdle /\ characterDB_update_call(p)
updateCharacter ==
  Updated(characters, "characterDB.update") /\ UNCHANGED <<places, notes>>
deleteCharacter_call(p) == CtlIdle /\ characterDB_delete_call(p)
deleteCharacter ==
  Deleted(characters, "characterDB.delete") /\ UNCHANGED <<places, notes>>

createPlace_call(p) == CtlIdle /\ placeDB_create_call(p)
createPlace == Created(places, "placeDB.create") /\ UNCHANGED <<characters, notes>>
updatePlace_call(p) == CtlIdle /\ placeDB_update_call(p)
updatePlace == Updated(places, "placeDB.update") /\ UNCHANGED <<characters, notes>>
deletePlace_call(p) == CtlIdle /\ placeDB_delete_call(p)
deletePlace == Deleted(places, "placeDB.delete") /\ UNCHANGED <<characters, notes>>

createNote_call(p) == CtlIdle /\ noteDB_create_call(p)
createNote == Created(notes, "noteDB.create") /\ UNCHANGED <<characters, places>>
updateNote_call(p) == CtlIdle /\ noteDB_update_call(p)
updateNote == Updated(notes, "noteDB.update") /\ UNCHANGED <<characters, places>>
deleteNote_call(p) == CtlIdle /\ noteDB_delete_call(p)
deleteNote == Deleted(notes, "noteDB.delete") /\ UNCHANGED <<characters, places>>

\* selectNovel(id) up to its first await: with null it sets the four state
\* values and returns; else it calls novelDB.get(id)
selectNovel_call ==
  /\ ~Pending /\ \A p \in Procs : tasks[p] = Idle
  /\ calls < MaxCalls
  /\ calls' = calls + 1
  /\ \E id \in NovelIds \cup {DanglingId, Absent} :
       /\ issued' = Append(issued, id)
       /\ IF id = Absent
          THEN /\ currentNovel' = Absent /\ characters' = <<>>
               /\ places' = <<>> /\ notes' = <<>>
               /\ UNCHANGED <<selects, dbPromise, opens>>
          ELSE /\ selects' = Append(selects, [id |-> id, pc |-> "get"])
               /\ GetDB
               /\ UNCHANGED <<currentNovel, characters, places, notes>>
  /\ last' = NoLast
  /\ UNCHANGED <<db, now, tasks>>
  /\ Recorded

\* the oldest pending request of the selectNovel calls is served: the
\* db.get of novelDB.get, after which selectNovel sets currentNovel and
\* issues the three getByNovel reads of loadNovelData, or those three reads,
\* after which loadNovelData sets the three lists
selectNovel ==
  /\ selects # <<>>
  /\ dbPromise = "resolved"
  /\ LET s == Head(selects)
     IN IF s.pc = "get"
        THEN IF Has(db, "novels", s.id)
             THEN /\ currentNovel' = Get(db, "novels", s.id)
                  /\ selects' = Append(Tail(selects), [s EXCEPT !.pc = "load"])
                  /\ UNCHANGED <<characters, places, notes>>
             ELSE /\ selects' = Tail(selects)
                  /\ UNCHANGED <<currentNovel, characters, places, notes>>
        ELSE /\ characters' = GetAllByNovel(db, "characters", s.id)
             /\ places' = GetAllByNovel(db, "places", s.id)
             /\ notes' = GetAllByNovel(db, "notes", s.id)
             /\ selects' = Tail(selects)
             /\ UNCHANGED currentNovel
  /\ last' = NoLast
  /\ UNCHANGED <<db, now, dbPromise, opens, tasks, calls, issued>>
  /\ Recorded

InitStore ==
  /\ db \in {EmptyDB, Library}
  /\ now = 3
  /\ dbPromise = "null"
  /\ opens = 0
  /\ tasks = [p \in Procs |-> Idle]
  /\ calls = 0
  /\ last = NoLast
  /\ currentNovel = Absent /\ characters = <<>> /\ places = <<>>
  /\ notes = <<>> /\ selects = <<>> /\ issued = <<>>

Init == InitStore /\ snaps = [on |-> FALSE, at |-> [p \in Procs |-> {}]]

(* ======================================================================== *)
(* Properties                                                               *)
(* ======================================================================== *)
Dependents == {"characters", "places", "notes"}
Entities == {"novels", "characters", "places", "notes"}
Elems(seq) == {seq[i] : i \in 1..Len(seq)}

\* C1: once novelDB.delete(n) has completed with nothing interleaved, the
\* store holds no character, place or note of n, no image that one of those
\* characters or places listed, and no novel n.
C1_CascadeComplete ==
  (last.op = "novelDB.delete" /\ last.call.solo) =>
    LET n == last.call.arg
        pre == last.call.pre
    IN /\ ~Has(db, "novels", n)
       /\ \A s \in Dependents : \A r \in Range(db[s]) : r.novelId # n
       /\ \A s \in {"characters", "places"} : \A r \in Range(pre[s]) :
            r.novelId = n => \A i \in Elems(r.images) : ~Has(db, "images", i)

C1_Witness ==
  /\ last.op = "novelDB.delete" /\ last.call.solo
  /\ LET n == last.call.arg
         pre == last.call.pre
     IN /\ Has(pre, "novels", n)
        /\ \E r \in Range(pre.characters) : r.novelId = n /\ r.images # <<>>
        /\ \E r \in Range(pre.places) : r.novelId = n /\ r.images # <<>>
        /\ \E r \in Range(pre.notes) : r.novelId = n
        /\ \E r \in Range(db.characters) : r.novelId # n

\* C2: in every interleaving of novelDB.delete(n) with other calls, right
\* after the novel's removal no character, place or note of n (committed
\* before the removal) is still stored.
C2_AtomicCascade ==
  last.op = "novelDB.delete" =>
    \A s \in Dependents : \A r \in Range(db[s]) : r.novelId # last.call.arg

RECURSIVE ApplyAll(_, _)
ApplyAll(d, ws) == IF ws = <<>> THEN d ELSE ApplyAll(Apply(d, Head(ws)), Tail(ws))

\* C3: while importAll(doc, 'overwrite') is under way (and no other task has
\* written), the store a reader sees is either the complete contents before
\* the import or the complete contents after it.
C3_ImportAtomic ==
  \A p \in Procs :
    (tasks[p].op = "importAll" /\ tasks[p].mode = "overwrite" /\ tasks[p].solo) =>
      \/ db = tasks[p].pre
      \/ db = ApplyAll(tasks[p].pre, Writes(tasks[p].arg, "overwrite"))

\* C4: when a write or clear of importAll fails, or the process terminates
\* during the import, the five collections are as they were before the call.
C4_ImportAllOrNothing ==
  /\ (last.op = "importAll" /\ last.outcome = "error" /\ last.call.solo
        /\ ~Throws(last.call.arg))
       => db = last.call.pre
  /\ last.op = "terminate" =>
       \A p \in Procs :
         (last.killed[p].op = "importAll" /\ last.killed[p].solo)
           => db = last.killed[p].pre

LacksField(data) == "version" \notin data.has \/ "novels" \notin data.has

Referenced(d) ==
  UNION {Elems(r.images) : r \in Range(d.characters) \cup Range(d.places)}
    \cup {r.coverImage : r \in {n \in Range(d.novels) : n.coverImage # Absent}}

RoundTrip ==
  /\ last.op = "importAll" /\ last.outcome = "ok" /\ last.call.solo
  /\ last.call.exported /\ last.call.mode = "overwrite"

\* C6 as stated: exportAll followed by importAll(result, 'overwrite')
\* reproduces all five collections.
C6_RoundTripAll == RoundTrip => db = last.call.pre

\* C6 as amended: the round trip reproduces novels, characters, places and
\* notes, and of the images those that an exported character, place or novel
\* cover refers to and whose data is not the empty string.
C6_RoundTrip ==
  RoundTrip =>
    LET pre == last.call.pre
        kept == {i \in DOMAIN pre.images :
                   i \in Referenced(pre) /\ pre.images[i].data # ""}
    IN /\ \A s \in Entities : db[s] = pre[s]
       /\ db.images = [i \in kept |-> pre.images[i]]

C6_Witness ==
  /\ RoundTrip
  /\ db.images # <<>> /\ db.characters # <<>> /\ db.places # <<>>
  /\ db # last.call.pre
  /\ last.call.pre # Library

ImportDone(mode) ==
  /\ last.op = "importAll" /\ last.outcome = "ok" /\ last.call.solo
  /\ last.call.mode = mode

\* the record a list of records holds for an id: the last one with that id
Latest(recs, id) ==
  recs[CHOOSE i \in 1..Len(recs) :
         recs[i].id = id /\ \A j \in (i + 1)..Len(recs) : recs[j].id # id]

\* C7: after importAll(doc, 'merge') every id of doc maps to doc's record,
\* every other record that was stored before is still there unchanged, and
\* nothing else is stored.
C7_MergeNonDestructive ==
  ImportDone("merge") =>
    \A s \in Stores :
      LET recs == last.call.arg[s]
          ids == {r.id : r \in Elems(recs)}
          pre == last.call.pre[s]
      IN /\ DOMAIN db[s] = DOMAIN pre \cup ids
         /\ \A id \in ids : db[s][id] = Latest(recs, id)
         /\ \A id \in DOMAIN pre \ ids : db[s][id] = pre[id]

C7_Witness ==
  /\ ImportDone("merge")
  /\ ~last.call.exported
  /\ \E id \in DOMAIN last.call.pre.novels :
       /\ id \in {r.id : r \in Elems(last.call.arg.novels)}
       /\ db.novels[id] # last.call.pre.novels[id]
  /\ \E id \in DOMAIN last.call.pre.novels :
       id \notin {r.id : r \in Elems(last.call.arg.novels)}
  /\ \E id \in DOMAIN db.novels : id \notin DOMAIN last.call.pre.novels

\* C8: after importAll(doc, 'overwrite') with nothing interleaved each of the
\* five collections holds exactly the records of doc, and nothing that was
\* stored only before the import.
C8_OverwriteReplaces ==
  ImportDone("overwrite") =>
    \A s \in Stores :
      LET recs == last.call.arg[s]
          ids == {r.id : r \in Elems(recs)}
      IN db[s] = [id \in ids |-> Latest(recs, id)]

C8_Witness ==
  /\ ImportDone("overwrite")
  /\ ~last.call.exported
  /\ \A s \in Stores :
       /\ last.call.arg[s] # <<>>
       /\ \E id \in DOMAIN last.call.pre[s] : id \notin DOMAIN db[s]

\* C9: once characterDB.delete(B) has completed with nothing interleaved, B
\* is gone, no character of B's novel lists B's id, and every other
\* character of that novel keeps its other links in their order.
C9_CrossReferenceCleanup ==
  (last.op = "characterDB.delete" /\ last.call.solo
     /\ Has(last.call.pre, "characters", last.call.arg)) =>
    LET b == last.call.arg
        pre == last.call.pre.characters
    IN /\ ~Has(db, "characters", b)
       /\ \A c \in Range(db.characters) :
            c.novelId = pre[b].novelId => ~Includes(c.linkedCharacterIds, b)
       /\ \A a \in DOMAIN pre \ {b} :
            pre[a].novelId = pre[b].novelId =>
              /\ Has(db, "characters", a)
              /\ db.characters[a].linkedCharacterIds
                   = Filter(pre[a].linkedCharacterIds, b)

C9_Witness ==
  /\ last.op = "characterDB.delete" /\ last.call.solo
  /\ Has(last.call.pre, "characters", last.call.arg)
  /\ \E a \in DOMAIN db.characters :
       /\ Includes(last.call.pre.characters[a].linkedCharacterIds, last.call.arg)
       /\ Len(db.characters[a].linkedCharacterIds) >= 2

CreateStore(op) ==
  CASE op = "novelDB.create" -> "novels"
    [] op = "characterDB.create" -> "characters"
    [] op = "placeDB.create" -> "places"
    [] op = "noteDB.create" -> "notes"

\* C10: a create (or imageDB.save) never returns an id that an earlier one
\* stored a record under, so it never overwrites such a record.
C10_IdUnique ==
  /\ (last.op \in {"novelDB.create", "characterDB.create", "placeDB.create",
                   "noteDB.create"} /\ last.call.solo)
       => ~Has(last.call.pre, CreateStore(last.op), last.result.id)
  /\ (last.op = "imageDB.save" /\ last.call.solo)
       => ~Has(last.call.pre, "images", last.result)

Creates ==
  {"novelDB.create", "characterDB.create", "placeDB.create", "noteDB.create"}
Updates ==
  {"novelDB.update", "characterDB.update", "placeDB.update", "noteDB.update"}
UpdateStore(op) ==
  CASE op = "novelDB.update" -> "novels"
    [] op = "characterDB.update" -> "characters"
    [] op = "placeDB.update" -> "places"
    [] op = "noteDB.update" -> "notes"

\* C11: the record a create returns has createdAt = updatedAt, carries the
\* supplied fields unchanged and nothing but them and id, createdAt and
\* updatedAt, and a get of its id right after the create returns that record.
C11_CreateReturnsPersisted ==
  last.op \in Creates =>
    LET rec == last.result
        data == last.call.data
    IN /\ rec.createdAt = rec.updatedAt
       /\ DOMAIN rec = DOMAIN data \cup {"id", "createdAt", "updatedAt"}
       /\ \A f \in DOMAIN data : rec[f] = data[f]
       /\ Get(db, CreateStore(last.op), rec.id) = rec

C11_Witness ==
  /\ last.op = "characterDB.create"
  /\ last.result.images # <<>> /\ last.result.linkedCharacterIds # <<>>
  /\ DOMAIN db.characters # {last.result.id}

\* update(id, ...) of a stored record has returned, nothing interleaved
UpdatedExisting ==
  /\ last.op \in Updates /\ last.call.solo
  /\ Has(last.call.pre, UpdateStore(last.op), last.call.arg)

\* C12: an update of a stored record leaves it with an updatedAt strictly
\* greater than the one it had, however soon it follows the last write.
C12_UpdatedAtStrictlyIncreases ==
  UpdatedExisting =>
    LET s == UpdateStore(last.op)
        id == last.call.arg
    IN db[s][id].updatedAt > last.call.pre[s][id].updatedAt

\* C13: an update of a stored record leaves its createdAt as it was, in the
\* store and in the returned record, whatever the payload carries.
C13_UpdateKeepsCreatedAt ==
  UpdatedExisting =>
    LET s == UpdateStore(last.op)
        id == last.call.arg
    IN /\ db[s][id].createdAt = last.call.pre[s][id].createdAt
       /\ last.result.createdAt = last.call.pre[s][id].createdAt

Stamped(d) ==
  \A s \in Entities : \A r \in Range(d[s]) : r.updatedAt >= r.createdAt

\* C14: a create, update or delete of the four repositories, made on a store
\* whose novels, characters, places and notes all have updatedAt >= createdAt,
\* leaves a store of which the same is true.
C14_UpdatedNotBeforeCreated ==
  (last.op \in Creates \cup Updates \cup
       {"novelDB.delete", "characterDB.delete", "placeDB.delete", "noteDB.delete"}
     /\ last.call.solo /\ Stamped(last.call.pre))
    => Stamped(db)

\* C15: update(id, payload) of a stored record stores and returns that record
\* with the payload's fields laid over it and the id equal to the argument
\* (also when the payload carries another id); the collection keeps its set
\* of ids and every other record.
C15_UpdateOverlaysKeepsId ==
  UpdatedExisting =>
    LET s == UpdateStore(last.op)
        id == last.call.arg
        old == last.call.pre[s][id]
        data == last.call.data
        rec == last.result
    IN /\ rec.id = id
       /\ DOMAIN rec = DOMAIN old \cup DOMAIN data
       /\ \A f \in DOMAIN data \ {"id", "updatedAt"} : rec[f] = data[f]
       /\ \A f \in DOMAIN old \ (DOMAIN data \cup {"updatedAt"}) : rec[f] = old[f]
       /\ db[s][id] = rec
       /\ DOMAIN db[s] = DOMAIN last.call.pre[s]
       /\ \A k \in DOMAIN db[s] \ {id} : db[s][k] = last.call.pre[s][k]
       /\ \A t \in Stores \ {s} : db[t] = last.call.pre[t]

C15_Witness ==
  /\ UpdatedExisting
  /\ "id" \in DOMAIN last.call.data
  /\ last.call.data.id # last.call.arg
  /\ Cardinality(DOMAIN db[UpdateStore(last.op)]) >= 2

\* C16: update(id, payload) for an id that is not in the collection resolves
\* with undefined, raises nothing and leaves the five collections as they were.
C16_UpdateAbsent ==
  (last.op \in Updates /\ last.call.solo
     /\ ~Has(last.call.pre, UpdateStore(last.op), last.call.arg))
    => /\ last.outcome = "ok"
       /\ DOMAIN last.result = {}
       /\ db = last.call.pre

C16_Witness ==
  /\ last.op \in Updates /\ last.call.solo
  /\ ~Has(last.call.pre, UpdateStore(last.op), last.call.arg)
  /\ db = Library


ListCalls ==
  {"novelDB.getAll", "characterDB.getByNovel", "placeDB.getByNovel",
   "noteDB.getByNovel"}
OldestFirst(recs) ==
  \A i, j \in 1..Len(recs) : i < j => recs[i].updatedAt <= recs[j].updatedAt

\* C17: the list novelDB.getAll() returns and the list each of characterDB,
\* placeDB and noteDB.getByNovel(novelId) returns is in ascending order of
\* updatedAt.
C17_ListsOldestFirst ==
  last.op \in ListCalls => OldestFirst(last.result)

Owned(d) ==
  \A s \in Dependents : \A r \in Range(d[s]) : Has(d, "novels", r.novelId)
Deletes ==
  {"novelDB.delete", "characterDB.delete", "placeDB.delete", "noteDB.delete"}

\* C18: a create, update or delete of the four repositories, completed with
\* no call in flight on a store in which every character, place and note
\* has the novelId of a stored novel, leaves a store of which the same is true.
C18_OwnersExist ==
  (last.op \in Creates \cup Updates \cup Deletes /\ last.call.solo
     /\ Owned(last.call.pre) /\ \A p \in Procs : tasks[p] = Idle)
    => Owned(db)

\* C19: after novelDB.delete, characterDB.delete or placeDB.delete has
\* completed, every image that was stored before it and that a surviving
\* character or place lists, or a surviving novel has as its cover, is still
\* in the image store.
C19_SharedImagesSurvive ==
  (last.op \in {"novelDB.delete", "characterDB.delete", "placeDB.delete"}
     /\ last.call.solo)
    => \A i \in Referenced(db) :
         Has(last.call.pre, "images", i) => Has(db, "images", i)

Exported == last.op = "exportAll" /\ last.call.solo
ImageKeys(doc) == {doc.images[k].id : k \in 1..Len(doc.images)}
\* the store a document's entity lists describe
DocStore(doc) ==
  [s \in Stores |->
     IF s = "images" THEN <<>>
     ELSE [id \in {r.id : r \in Elems(doc[s])} |-> Latest(doc[s], id)]]

\* C20 as stated: the keys of the image map exportAll returns are exactly
\* the image ids the exported characters, places and novel covers refer to.
C20_ExportImagesExact ==
  Exported => ImageKeys(last.result) = Referenced(DocStore(last.result))

\* C20 as amended: the keys of the image map are the image ids the exported
\* entities refer to that are stored with data other than the empty string,
\* each mapped to its stored data; no key is unreferenced.
C20_ExportImagesStored ==
  Exported =>
    LET doc == last.result
        pre == last.call.pre
    IN /\ ImageKeys(doc) =
            {i \in Referenced(DocStore(doc)) :
               Has(pre, "images", i) /\ pre.images[i].data # ""}
       /\ \A k \in 1..Len(doc.images) : doc.images[k] = pre.images[doc.images[k].id]

C20_Witness ==
  /\ Exported
  /\ ImageKeys(last.result) # {}
  /\ \E i \in Referenced(DocStore(last.result)) : ~Has(last.call.pre, "images", i)
  /\ \E i \in Referenced(DocStore(last.result)) :
       Has(last.call.pre, "images", i) /\ last.call.pre.images[i].data = ""


\* exportAll has returned, nothing interleaved, and an entity of the store
\* referred to an image id that has no record
ExportedDangling ==
  /\ last.op = "exportAll" /\ last.call.solo
  /\ \E i \in Referenced(last.call.pre) : ~Has(last.call.pre, "images", i)

\* C21 as stated: with a dangling image reference exportAll completes
\* normally, its image map has no entry for an id without a record and has,
\* with the record's data, every referenced id that has a record.
C21_ExportAllStoredImages ==
  ExportedDangling =>
    /\ last.outcome = "ok"
    /\ \A i \in Referenced(last.call.pre) :
         IF Has(last.call.pre, "images", i)
         THEN \E k \in 1..Len(last.result.images) :
                last.result.images[k] = last.call.pre.images[i]
         ELSE i \notin ImageKeys(last.result)

\* C21 as amended: with a dangling image reference exportAll completes
\* normally, its image map has no entry for an id without a record and has,
\* with the record's data, every referenced id whose record has data other
\* than the empty string; a record with empty data is left out as well.
C21_ExportSkipsMissing ==
  ExportedDangling =>
    /\ last.outcome = "ok"
    /\ \A i \in Referenced(last.call.pre) :
         IF Has(last.call.pre, "images", i) /\ last.call.pre.images[i].data # ""
         THEN \E k \in 1..Len(last.result.images) :
                last.result.images[k] = last.call.pre.images[i]
         ELSE i \notin ImageKeys(last.result)

C21_Witness ==
  /\ ExportedDangling
  /\ last.result.images # <<>>
  /\ last.result.characters # <<>>


\* the place of a storage request in the order clears, images, novels,
\* characters, places, notes
WriteRank(w) ==
  IF w.kind = "clear" THEN 0
  ELSE CASE w.store = "images" -> 1
         [] w.store = "novels" -> 2
         [] w.store = "characters" -> 3
         [] w.store = "places" -> 4
         [] w.store = "notes" -> 5
\* the image ids a record of a document refers to
RecordImages(s, r) ==
  IF s = "novels" THEN (IF r.coverImage = Absent THEN {} ELSE {r.coverImage})
  ELSE Elems(r.images)
\* the records of doc[s] importAll has written so far, ws being still to come
Written(doc, s, ws) ==
  {r \in Elems(doc[s]) :
     \A k \in 1..Len(ws) : ~(ws[k].kind = "put" /\ ws[k].store = s /\ ws[k].rec = r)}

\* C22: at every point of an importAll with nothing interleaved, every image
\* id that a novel, character or place already written from the document
\* refers to and that is a key of the document's images is in the image
\* store; the requests still to come are in the order images, novels,
\* characters, places, notes.
C22_ImportImagesFirst ==
  \A p \in Procs :
    (tasks[p].op = "importAll" /\ tasks[p].solo /\ ~Throws(tasks[p].arg)) =>
      LET doc == tasks[p].arg
          ws == tasks[p].writes
      IN /\ \A i, j \in 1..Len(ws) : i < j => WriteRank(ws[i]) <= WriteRank(ws[j])
         /\ \A s \in {"novels", "characters", "places"} :
              \A r \in Written(doc, s, ws) :
                \A i \in RecordImages(s, r) \cap ImageKeys(doc) : Has(db, "images", i)

C22_Witness ==
  \E p \in Procs :
    /\ tasks[p].op = "importAll" /\ tasks[p].solo /\ tasks[p].mode = "overwrite"
    /\ tasks[p].pre = Library
    /\ tasks[p].writes # <<>>
    /\ \E r \in Written(tasks[p].arg, "characters", tasks[p].writes) :
         RecordImages("characters", r) \cap ImageKeys(tasks[p].arg) # {}


\* C23: openDB is invoked once for any number of getDB calls, also for calls
\* made while the first open is pending; every call in flight awaits that
\* one open; dbPromise, once set, is never reset and no further open is made.
C23_OpenedOnce ==
  /\ [](/\ opens <= 1
        /\ (dbPromise = "null") <=> (opens = 0)
        /\ \A p \in Procs : tasks[p] # Idle => (dbPromise # "null" /\ opens = 1))
  /\ [][dbPromise # "null" => (dbPromise' # "null" /\ opens' = opens)]_vars
  /\ [][dbPromise = "resolved" => dbPromise' = "resolved"]_vars

C23_Witness ==
  /\ dbPromise = "pending"
  /\ \A p \in Procs : tasks[p] # Idle
  /\ opens = 1


\* record c after the cleanup of b: b filtered out of its links, updatedAt
\* refreshed, every other field as in old
CleanedOf(c, old, b) ==
  /\ DOMAIN c = DOMAIN old
  /\ c.linkedCharacterIds = Filter(old.linkedCharacterIds, b)
  /\ \A f \in DOMAIN old \ {"linkedCharacterIds", "updatedAt"} : c[f] = old[f]

C25_RetryCleansUp ==
  (last.op = "characterDB.delete" /\ last.call.solo /\ last.call.retry # Absent)
    => \A c \in Range(db.characters) :
         c.novelId = last.call.retry => ~Includes(c.linkedCharacterIds, last.call.arg)


\* no function of the NovelProvider is in flight
Quiet == ~Pending /\ selects = <<>> /\ \A p \in Procs : tasks[p] = Idle

\* C26: once a function of the NovelProvider has completed and none is in
\* flight, with a novel selected, the cached characters, places and notes
\* are exactly the records the store holds for that novel.
C26_CacheMatchesStore ==
  (Quiet /\ issued # <<>> /\ currentNovel # Absent) =>
    /\ Elems(characters) = Elems(GetAllByNovel(db, "characters", currentNovel.id))
    /\ Elems(places) = Elems(GetAllByNovel(db, "places", currentNovel.id))
    /\ Elems(notes) = Elems(GetAllByNovel(db, "notes", currentNovel.id))

\* C27: once all selectNovel calls made so far (and nothing else) have
\* finished, the cache shows the argument x of the last one: nothing
\* selected and empty lists for null; for a stored novel x, currentNovel.id
\* = x and only records of x in the lists.
C27_LastSelectionWins ==
  (Quiet /\ issued # <<>> /\ calls = Len(issued)) =>
    LET x == issued[Len(issued)]
    IN IF x = Absent
       THEN /\ currentNovel = Absent
            /\ characters = <<>> /\ places = <<>> /\ notes = <<>>
       ELSE Has(db, "novels", x) =>
              /\ currentNovel # Absent
              /\ currentNovel.id = x
              /\ \A r \in Elems(characters) \cup Elems(places) \cup Elems(notes) :
                   r.novelId = x


DeleteOf(op) ==
  CASE op = "novelDB.update" -> "novelDB.delete"
    [] op = "characterDB.update" -> "characterDB.delete"
    [] op = "placeDB.update" -> "placeDB.delete"
    [] op = "noteDB.update" -> "noteDB.delete"

\* C28: when delete(id) has completed while update(id, payload) was between
\* its read and its write, the write of the update does not put the record
\* back: the record stays absent.
C28_NoResurrection ==
  [][\A p \in Procs :
       (/\ tasks[p].op \in Updates /\ tasks[p].pc = "put"
        /\ last.op = DeleteOf(tasks[p].op) /\ last.call.arg = tasks[p].arg
        /\ ~Has(db, UpdateStore(tasks[p].op), tasks[p].arg)
        /\ tasks'[p] = Idle)
         => ~Has(db', UpdateStore(tasks[p].op), tasks[p].arg)]_vars

\* C29: when novelDB.delete(n) has completed while characterDB.delete(B), B
\* of novel n, was in its cleanup pass, the writes of the cleanup pass leave
\* no character with novelId n in the store.
C29_CleanupAfterNovelDelete ==
  [][\A p \in Procs :
       (/\ tasks[p].op = "characterDB.delete" /\ tasks[p].pc = "cleanup"
        /\ last.op = "novelDB.delete"
        /\ last.call.arg = tasks[p].character.novelId
        /\ tasks'[p] # tasks[p])
         => \A c \in Range(db'.characters) :
              c.novelId # tasks[p].character.novelId]_vars

\* C30: when characterDB.update(A, payload) has completed while
\* characterDB.delete(B) was about to clean A up, the cleanup write leaves A
\* as that update returned it, but for B's id removed from its links and
\* updatedAt.
C30_CleanupKeepsEdits ==
  [][\A p \in Procs :
       (/\ tasks[p].op = "characterDB.delete" /\ tasks[p].pc = "cleanup"
        /\ last.op = "characterDB.update"
        /\ last.call.arg = Head(tasks[p].rest).id
        /\ DOMAIN last.result # {}
        /\ tasks'[p] # tasks[p])
         => CleanedOf(db'.characters[last.call.arg], last.result, tasks[p].arg)]_vars

\* the document is the store d seen whole: the four entity lists are d's, and
\* the image map holds images of d, among them every image of d that an
\* entity of d refers to and that has data
Snapshot(doc, d) ==
  /\ \A s \in Entities : doc[s] = GetAll(d, s)
  /\ \A k \in 1..Len(doc.images) :
       /\ Has(d, "images", doc.images[k].id)
       /\ doc.images[k] = d.images[doc.images[k].id]
  /\ \A i \in Referenced(d) :
       (Has(d, "images", i) /\ d.images[i].data # "") => i \in ImageKeys(doc)

\* C31: in every interleaving of exportAll with creates, updates and deletes
\* of the repositories, the document exportAll returns is the contents the
\* store had at one single instant between the call and the return.
C31_ExportSnapshot ==
  [][\A p \in Procs :
       (tasks[p].op = "exportAll" /\ tasks'[p] = Idle /\ last'.op = "exportAll")
         => \E d \in snaps.at[p] : Snapshot(last'.result, d)]_vars
\* the image ids the characters and places of novel n list in store d
ListedBy(d, n) ==
  UNION {Elems(r.images) :
           r \in {x \in Range(d.characters) \cup Range(d.places) : x.novelId = n}}

\* C32: novelDB.delete(n), nothing interleaved, leaves unchanged every novel
\* other than n, every character, place and note whose novelId is not n and
\* every image that no character or place of n lists, the cover image of n
\* among them unless a dependent lists it; it adds nothing.
C32_NovelDeleteFrame ==
  (last.op = "novelDB.delete" /\ last.call.solo) =>
    LET n == last.call.arg
        pre == last.call.pre
    IN /\ \A m \in DOMAIN pre.novels \ {n} :
            Has(db, "novels", m) /\ db.novels[m] = pre.novels[m]
       /\ \A s \in Dependents : \A r \in Range(pre[s]) :
            r.novelId # n => (Has(db, s, r.id) /\ db[s][r.id] = r)
       /\ \A i \in DOMAIN pre.images \ ListedBy(pre, n) :
            Has(db, "images", i) /\ db.images[i] = pre.images[i]
       /\ \A s \in Stores : DOMAIN db[s] \subseteq DOMAIN pre[s]

C32_Witness ==
  /\ last.op = "novelDB.delete" /\ last.call.solo
  /\ LET n == last.call.arg
         pre == last.call.pre
     IN /\ Has(pre, "novels", n) /\ ~Has(db, "novels", n)
        /\ pre.novels[n].coverImage # Absent
        /\ Has(pre, "images", pre.novels[n].coverImage)
        /\ Has(db, "images", pre.novels[n].coverImage)
        /\ \E i \in ListedBy(pre, n) : Has(pre, "images", i) /\ ~Has(db, "images", i)
        /\ \E m \in DOMAIN db.novels : m # n
        /\ \E s \in Dependents : \E r \in Range(db[s]) : r.novelId # n
\* the records of store d that have a linkedPlaceIds list with id in it
LinkingTo(d, id) ==
  {r \in Range(d.characters) \cup Range(d.notes) :
     "linkedPlaceIds" \in DOMAIN r /\ Includes(r.linkedPlaceIds, id)}

\* C33: placeDB.delete(p) of a stored place, nothing interleaved, removes p
\* from the places and the ids of p.images from the images and changes
\* nothing else: novels, characters and notes are as before, so every
\* linkedPlaceIds list that contained p's id still contains it.
C33_PlaceDeleteFrame ==
  (last.op = "placeDB.delete" /\ last.call.solo
     /\ Has(last.call.pre, "places", last.call.arg)) =>
    LET pre == last.call.pre
        place == pre.places[last.call.arg]
    IN /\ db.novels = pre.novels
       /\ db.characters = pre.characters
       /\ db.notes = pre.notes
       /\ db.places = Delete(pre, "places", place.id).places
       /\ db.images = DeleteAll(pre, "images", place.images).images
       /\ LinkingTo(db, place.id) = LinkingTo(pre, place.id)

C33_Witness ==
  /\ last.op = "placeDB.delete" /\ last.call.solo
  /\ Has(last.call.pre, "places", last.call.arg)
  /\ ~Has(db, "places", last.call.arg)
  /\ \E i \in Elems(last.call.pre.places[last.call.arg].images) :
       Has(last.call.pre, "images", i) /\ ~Has(db, "images", i)
  /\ \E r \in Range(db.characters) :
       "linkedPlaceIds" \in DOMAIN r /\ Includes(r.linkedPlaceIds, last.call.arg)
  /\ \E r \in Range(db.notes) :
       "linkedPlaceIds" \in DOMAIN r /\ Includes(r.linkedPlaceIds, last.call.arg)
\* the collection a repository's delete removes its argument from
DeleteStore(op) ==
  CASE op = "novelDB.delete" -> "novels"
    [] op = "characterDB.delete" -> "characters"
    [] op = "placeDB.delete" -> "places"
    [] op = "noteDB.delete" -> "notes"
    [] op = "imageDB.delete" -> "images"

\* C34: delete(id) of novelDB, characterDB, placeDB, noteDB or imageDB with
\* an id its collection does not hold completes normally and leaves the
\* five collections as they were.
C34_DeleteAbsentNoOp ==
  (/\ last.op \in Deletes \cup {"imageDB.delete"} /\ last.call.solo
   /\ ~Has(last.call.pre, DeleteStore(last.op), last.call.arg))
    => (last.outcome = "ok" /\ db = last.call.pre)

Repo(p) ==
  \/ novelDB_create_call(p) \/ novelDB_create(p)
  \/ characterDB_create_call(p) \/ characterDB_create(p)
  \/ placeDB_create_call(p) \/ placeDB_create(p)
  \/ noteDB_create_call(p) \/ noteDB_create(p)
  \/ novelDB_update_call(p) \/ novelDB_update(p)
  \/ characterDB_update_call(p) \/ characterDB_update(p)
  \/ placeDB_update_call(p) \/ placeDB_update(p)
  \/ noteDB_update_call(p) \/ noteDB_update(p)
  \/ novelDB_delete_call(p) \/ novelDB_delete_read(p) \/ novelDB_delete(p)
  \/ characterDB_delete_call(p) \/ characterDB_delete_get(p)
  \/ characterDB_delete(p) \/ characterDB_delete_scan(p)
  \/ characterDB_delete_cleanup(p)
  \/ placeDB_delete_call(p) \/ placeDB_delete_get(p) \/ placeDB_delete(p)
  \/ noteDB_delete_call(p) \/ noteDB_delete(p)
  \/ imageDB_save_call(p) \/ imageDB_save(p)
  \/ imageDB_delete_call(p) \/ imageDB_delete(p)
  \/ dataExport_exportAll_call(p) \/ dataExport_exportAll_read(p)
  \/ dataExport_exportAll(p)
  \/ dataExport_importAll_call(p) \/ dataExport_importAll(p)
  \/ handleImport(p)

\* the list functions of the four repositories
ListOps(p) ==
  \/ novelDB_getAll_call(p) \/ novelDB_getAll(p)
  \/ characterDB_getByNovel_call(p) \/ characterDB_getByNovel(p)
  \/ placeDB_getByNovel_call(p) \/ placeDB_getByNovel(p)
  \/ noteDB_getByNovel_call(p) \/ noteDB_getByNovel(p)

\* one call at a time: a call is made when the previous one has settled
Next ==
  \/ Tick \/ OpenResolved \/ Terminate
  \/ \E p \in {1} : Repo(p) \/ ListOps(p) \/ dataExport_importAll_fail(p)
Spec == Init /\ [][Next]_vars

\* calls made without waiting for one another
NextConc == Tick \/ OpenResolved \/ \E p \in Procs : Repo(p)
SpecConc == Init /\ [][NextConc]_vars

\* the functions of the NovelProvider on characters, places and notes
Ctl(p) ==
  \/ createCharacter_call(p) \/ characterDB_create(p) \/ createCharacter
  \/ updateCharacter_call(p) \/ characterDB_update(p) \/ updateCharacter
  \/ deleteCharacter_call(p) \/ characterDB_delete_get(p)
  \/ characterDB_delete(p) \/ characterDB_delete_scan(p)
  \/ characterDB_delete_cleanup(p) \/ deleteCharacter
  \/ createPlace_call(p) \/ placeDB_create(p) \/ createPlace
  \/ updatePlace_call(p) \/ placeDB_update(p) \/ updatePlace
  \/ deletePlace_call(p) \/ placeDB_delete_get(p) \/ placeDB_delete(p)
  \/ deletePlace
  \/ createNote_call(p) \/ noteDB_create(p) \/ createNote
  \/ updateNote_call(p) \/ noteDB_update(p) \/ updateNote
  \/ deleteNote_call(p) \/ noteDB_delete(p) \/ deleteNote

\* the application driving the store through the NovelProvider
NextCtl ==
  \/ ~Pending /\ Tick
  \/ OpenResolved
  \/ selectNovel_call \/ selectNovel
  \/ \E p \in {1} : Ctl(p)
SpecCtl == Init /\ [][NextCtl]_vars

\* the mutations of the four repositories and of imageDB
Mutations(p) ==
  \/ novelDB_create_call(p) \/ novelDB_create(p)
  \/ characterDB_create_call(p) \/ characterDB_create(p)
  \/ placeDB_create_call(p) \/ placeDB_create(p)
  \/ noteDB_create_call(p) \/ noteDB_create(p)
  \/ novelDB_update_call(p) \/ novelDB_update(p)
  \/ characterDB_update_call(p) \/ characterDB_update(p)
  \/ placeDB_update_call(p) \/ placeDB_update(p)
  \/ noteDB_update_call(p) \/ noteDB_update(p)
  \/ novelDB_delete_call(p) \/ novelDB_delete_read(p) \/ novelDB_delete(p)
  \/ characterDB_delete_call(p) \/ characterDB_delete_get(p)
  \/ characterDB_delete(p) \/ characterDB_delete_scan(p)
  \/ characterDB_delete_cleanup(p)
  \/ placeDB_delete_call(p) \/ placeDB_delete_get(p) \/ placeDB_delete(p)
  \/ noteDB_delete_call(p) \/ noteDB_delete(p)
  \/ imageDB_save_call(p) \/ imageDB_save(p)
  \/ imageDB_delete_call(p) \/ imageDB_delete(p)

\* exportAll called while mutations are in flight or before they are called,
\* with the history of the store kept for each exportAll
InitSnap == InitStore /\ snaps = [on |-> TRUE, at |-> [p \in Procs |-> {}]]
NextSnap ==
  \/ Tick \/ OpenResolved
  \/ \E p \in Procs : \/ Mutations(p)
                      \/ dataExport_exportAll_call(p)
                      \/ dataExport_exportAll_read(p)
                      \/ dataExport_exportAll(p)
SpecSnap == InitSnap /\ [][NextSnap]_vars
====
